---- MODULE Spec2Model ----
(***************************************************************************)
(* The room rate availability calendar hook, useRoomRateAvailabilityCalendar *)
(* (src/app/(hooks)/useRoomRateAvailabilityCalendar.ts): an infinite query  *)
(* keyed on the hook's params, whose pages are fetched by fetchData with a  *)
(* numeric cursor and chained by getNextPageParam.                          *)
(*                                                                         *)
(* The hook hands queryKey, fetchData, initialPageParam, getNextPageParam   *)
(* and staleTime to useInfiniteQuery; every other option keeps the query    *)
(* layer's default (retry 3, refetch on mount when stale, fetchNextPage     *)
(* superseding a fetch already in flight).  The actions below are the       *)
(* operations of that configured query as the caller of the hook sees them. *)
(* The query layer's further defaults are part of it: the retry delay, the   *)
(* refetch of a stale query on window focus and on reconnect, and gcTime,   *)
(* after which a query that nobody observes leaves the cache.               *)
(***************************************************************************)
EXTENDS Integers, Sequences, FiniteSets, TLC

\* ---------------------------------------------------------------- bounds
\* Cursors are 0..MaxCursor; a query accumulates at most MaxPages pages; at
\* most MaxZombies superseded network calls are out; the clock stops after
\* MaxTicks steps.
MaxCursor == 1
MaxPages == 3
MaxZombies == 1
MaxTicks == 5

\* ------------------------------------------------------------- constants
\* nextCursor?: number -- the optional field when it is absent.
Undefined == -1
\* A run that starts at cursor 1.
initialPageParamOne == 0 + 1
\* initialPageParam: 0
initialPageParam == 0
\* staleTime: 2 * 60 * 1000 (milliseconds).
staleTime == 2 * 60 * 1000
\* retry is not among the options of the hook: the query layer's default.
retry == 3
\* gcTime is not among the options of the hook: the query layer's default,
\* five minutes (milliseconds).
gcTime == 5 * 60 * 1000
\* One step of the clock, in milliseconds.
TickMs == 60 * 1000

NoError == "none"

\* process.env.NEXT_PUBLIC_BACKEND_URL: set, or not set, in which case the
\* template literal of fetchData starts with "undefined".
NoBackendUrl == "undefined"
BackendUrls == {"https://backend", NoBackendUrl}
NoJob == [direction |-> "none"]

\* ------------------------------------------------------------------ data
\* IParams: the dates are day numbers.
P1 == [property_id |-> 42, start_date |-> 1, end_date |-> 2]
P2 == [property_id |-> 42, start_date |-> 2, end_date |-> 3]
IParams == {P1, P2}

Cursors == 0..MaxCursor
NextCursors == Cursors \cup {Undefined}

\* IRoomCategoryCalender, with the date of its calendar entries.
Category(i, d) == [id |-> i, date |-> d]

\* Number.prototype.toString of a small non-negative integer.
Digits == <<"0", "1", "2", "3", "4", "5", "6", "7", "8", "9">>
toString(n) == Digits[n + 1]

\* The request fetchData builds: the path holds params.property_id, the
\* query string start_date, end_date, cursor and fields.
Request(params, pageParam) ==
    [property_id |-> params.property_id,
     start_date |-> params.start_date,
     end_date |-> params.end_date,
     cursor |-> toString(pageParam),
     fields |-> "id,name,rate"]

\* What Fetch<IResponse> resolves to: the response to the request `req`,
\* whose data is the IResponse body.
Response(req, body) == [req |-> req, data |-> body]

\* The errors Fetch rejects with.
FetchErrors == {"NetworkError", "DecodeError"}

\* The ways one call of Fetch can settle, given the bodies the server may
\* answer with.
FetchOutcomes(req, bodies) ==
    { [ok |-> TRUE, value |-> Response(req, b)] : b \in bodies }
        \cup { [ok |-> FALSE, error |-> e] : e \in FetchErrors }

\* The bodies of a server of which the categories vary too: a category in the
\* date range of P1, another one, one dated after the range, one id twice.
CategoryLists ==
    { <<Category(1, 1)>>, <<Category(2, 2)>>, <<Category(1, 3)>>,
      <<Category(1, 1), Category(1, 2)>> }
DataBodies == { [room_categories |-> cs, nextCursor |-> n] :
                  cs \in CategoryLists, n \in NextCursors }

\* The bodies of a server that has one more page or none, dated within the
\* range of P1 and of P2.
PagedBodies == { [room_categories |-> <<Category(1, 2)>>, nextCursor |-> n] :
                   n \in {Undefined, 1} }

\* ------------------------------------------------------- pure functions
\* A test for presence: the number is there, 0 included.
Present(n) == n # Undefined
\* JavaScript truthiness of an optional number.
Truthy(n) == n # Undefined /\ n # 0

\* getNextPageParam: (lastpage) => { if (lastpage.data.nextCursor) return it;
\* else { undefined } } -- the else branch falls off the end of the function.
getNextPageParam(lastpage) ==
    IF Truthy(lastpage.data.nextCursor) THEN lastpage.data.nextCursor ELSE Undefined

\* A query key that leaves the params out.
queryKeyNoParams(params) == <<"property_room_calendar">>
\* queryKey: ["property_room_calendar", params]
queryKey(params) == <<"property_room_calendar", params>>

QueryKeys == { queryKey(p) : p \in IParams }

\* fetchData({pageParam = 0}): the request it builds ...
fetchDataRequest(params, pageParam) ==
    Request(params, IF pageParam = Undefined THEN 0 ELSE pageParam)

\* new URL(`${base}/api/v1/property/...`): a string that starts with
\* "undefined/" is not an absolute URL and the constructor throws a TypeError.
ValidUrl(base) == base # NoBackendUrl

\* ... and what it returns: return await Fetch(...), so whatever Fetch settles
\* with, a rejection included.
fetchData(outcome) == outcome

\* The page list growing at its start.
addToStart(items, item) == <<item>> \o items
\* addToEnd: the page list of an infinite query grows at its end.
addTo(items, item) == Append(items, item)

Last(s) == s[Len(s)]

RemoveAt(s, i) == [k \in 1..(Len(s) - 1) |-> IF k < i THEN s[k] ELSE s[k + 1]]

\* ----------------------------------------------------------------- state
VARIABLES
    backendUrl,     \* process.env.NEXT_PUBLIC_BACKEND_URL of the build
    cur,            \* the params the hook was last rendered with
    mounted,        \* the hook is mounted: its observer is on the query of cur
    pages,          \* per query: data.pages, each page with the time it came
    pageParams,     \* per query: data.pageParams
    status,         \* per query: "pending", "success" or "error"
    error,          \* per query: the error of the last failed fetch
    dataUpdatedAt,  \* per query: when data was last written (0: never)
    gcAt,           \* per query: when it was left unobserved and idle (0: it is not)
    job,            \* per query: the fetch in flight, or NoJob
    zombies,        \* superseded fetches whose network call is still out
    now,            \* the clock, in milliseconds
    late            \* the last fetch to succeed was of a query the hook had left

vars == <<backendUrl, cur, mounted, pages, pageParams, status, error,
          dataUpdatedAt, gcAt, job, zombies, now, late>>

\* data === undefined
NoData(k) == pages[k] = <<>>

\* hasNextPage: getNextPageParam(options, data) != null
hasNextPage(k) == ~NoData(k) /\ getNextPageParam(Last(pages[k])) # Undefined

\* query.isStaleByTime(staleTime)
isStale(k) == NoData(k) \/ now >= dataUpdatedAt[k] + staleTime

isFetching(k) == job[k] # NoJob

\* The query has an observer.
Observed(k) == mounted /\ queryKey(cur) = k

\* The fetch of the query has a call of fetchData that has not settled: it is
\* not waiting for its retry delay.
CallIsOut(k) == isFetching(k) /\ ~job[k].waiting

\* That call has reached the network: new URL(...) did not throw.
NetworkCallOut(k) == CallIsOut(k) /\ ValidUrl(backendUrl)

\* A fetch in flight, for the hook rendered with `params`.  res and resParams
\* are the pages and pageParams it has so far (base: what it started from),
\* param the cursor of the call that is out, remaining the number of pages at
\* which it stops, callAt the time at which that call went out; waiting: the
\* last call has failed with `failure` and the retry delay is running.
NewJob(params, dir, base, baseParams, param, remaining) ==
    [params |-> params, direction |-> dir, param |-> param, first |-> param,
     base |-> base, baseParams |-> baseParams,
     res |-> base, resParams |-> baseParams,
     remaining |-> remaining, failureCount |-> 0, retryCancelled |-> FALSE,
     waiting |-> FALSE, failure |-> NoError, callAt |-> now]

\* fetchFn without a direction, or with no page yet: the first page, then as
\* many pages as data held, following getNextPageParam.
FetchAll(params) ==
    LET k == queryKey(params) IN
    NewJob(params, "all", <<>>, <<>>,
           IF NoData(k) THEN initialPageParam ELSE pageParams[k][1],
           IF NoData(k) THEN 1 ELSE Len(pages[k]))

\* A fetch of the next page that starts from no page: the page replaces the
\* pages held.
FetchForwardAlone(params) ==
    LET k == queryKey(params) IN
    NewJob(params, "forward", <<>>, <<>>,
           getNextPageParam(Last(pages[k])), Len(pages[k]) + 1)
\* fetchFn with direction 'forward': one page after the last one.
FetchForward(params) ==
    LET k == queryKey(params) IN
    NewJob(params, "forward", pages[k], pageParams[k],
           getNextPageParam(Last(pages[k])), Len(pages[k]) + 1)

\* A superseded fetch: its network call is still out, its result is ignored;
\* left is the number of pages its fetchFn goes on to after that call.
Zombie(j) ==
    [params |-> j.params, param |-> j.param, direction |-> j.direction,
     left |-> j.remaining - Len(j.res) - 1]

\* observer removed from its query: retryer.cancelRetry() (fetchData does not
\* read the abort signal, so the fetch itself goes on).
CancelRetry(jobs, k) ==
    IF jobs[k] # NoJob THEN [jobs EXCEPT ![k].retryCancelled = TRUE] ELSE jobs

\* dispatch 'fetch': a query that never had data goes back to pending.
FetchStatus(k) == IF dataUpdatedAt[k] = 0 THEN "pending" ELSE status[k]
FetchError(k) == IF dataUpdatedAt[k] = 0 THEN NoError ELSE error[k]

\* scheduleGc(): the gc timer of a query starts when its last observer leaves
\* and when a fetch of it ends; it can remove the query only while the query
\* is unobserved and idle, and gcAt is kept for that case only.
ScheduleGc(held) == IF held THEN 0 ELSE now

\* dispatch 'success'
Success(k, newPages, newParams) ==
    /\ pages' = [pages EXCEPT ![k] = newPages]
    /\ pageParams' = [pageParams EXCEPT ![k] = newParams]
    /\ status' = [status EXCEPT ![k] = "success"]
    /\ error' = [error EXCEPT ![k] = NoError]
    /\ dataUpdatedAt' = [dataUpdatedAt EXCEPT ![k] = now]
    /\ gcAt' = [gcAt EXCEPT ![k] = ScheduleGc(Observed(k))]
    /\ job' = [job EXCEPT ![k] = NoJob]

\* dispatch 'error': the fetch ends with the error e, data stays.
Fail(k, e) ==
    /\ job' = [job EXCEPT ![k] = NoJob]
    /\ status' = [status EXCEPT ![k] = "error"]
    /\ error' = [error EXCEPT ![k] = e]
    /\ gcAt' = [gcAt EXCEPT ![k] = ScheduleGc(Observed(k))]
    /\ UNCHANGED <<pages, pageParams, dataUpdatedAt>>

\* query.fetch() of an observer that mounts on the query of p, or that finds
\* it stale on window focus or reconnect (cancelRefetch: false): a fetch in
\* flight is joined and its retry goes on, otherwise all pages are fetched.
FetchIfStale(jobs, p) ==
    LET k == queryKey(p) IN
    IF isStale(k)
    THEN IF jobs[k] # NoJob
         THEN /\ job' = [jobs EXCEPT ![k].retryCancelled = FALSE]
              /\ UNCHANGED <<status, error>>
         ELSE /\ job' = [jobs EXCEPT ![k] = FetchAll(p)]
              /\ status' = [status EXCEPT ![k] = FetchStatus(k)]
              /\ error' = [error EXCEPT ![k] = FetchError(k)]
    ELSE /\ job' = jobs
         /\ UNCHANGED <<status, error>>

\* The hook has just been mounted with params P1: the fetch of its first page
\* is in flight.  The backend URL of the build is set or is not.
Init ==
    /\ now = TickMs
    /\ backendUrl \in BackendUrls
    /\ cur = P1
    /\ mounted = TRUE
    /\ pages = [k \in QueryKeys |-> <<>>]
    /\ pageParams = [k \in QueryKeys |-> <<>>]
    /\ status = [k \in QueryKeys |-> "pending"]
    /\ error = [k \in QueryKeys |-> NoError]
    /\ dataUpdatedAt = [k \in QueryKeys |-> 0]
    /\ gcAt = [k \in QueryKeys |-> 0]
    /\ job = [k \in QueryKeys |-> IF k = queryKey(P1) THEN FetchAll(P1) ELSE NoJob]
    /\ zombies = <<>>
    /\ late = FALSE

\* The component that uses the hook is unmounted: the observer leaves the
\* query of cur, whose retry is cancelled and whose gc timer starts.
Unmount ==
    LET k == queryKey(cur) IN
    /\ mounted
    /\ mounted' = FALSE
    /\ job' = CancelRetry(job, k)
    /\ gcAt' = [gcAt EXCEPT ![k] = ScheduleGc(isFetching(k))]
    /\ late' = FALSE
    /\ UNCHANGED <<backendUrl, cur, pages, pageParams, status, error,
                   dataUpdatedAt, zombies, now>>

\* The hook is mounted with params p: a new observer subscribes to the query
\* of p, which is fetched when it is stale.
Mount(p) ==
    LET k == queryKey(p) IN
    /\ ~mounted
    /\ mounted' = TRUE
    /\ cur' = p
    /\ FetchIfStale(job, p)
    /\ gcAt' = [gcAt EXCEPT ![k] = 0]
    /\ late' = FALSE
    /\ UNCHANGED <<backendUrl, pages, pageParams, dataUpdatedAt, zombies, now>>

\* The mounted hook is rendered with other params p: the observer leaves the
\* query of cur and subscribes to the query of p.
Render(p) ==
    LET k == queryKey(p)
        old == queryKey(cur)
    IN
    /\ mounted
    /\ p # cur
    /\ cur' = p
    /\ FetchIfStale(CancelRetry(job, old), p)
    /\ gcAt' = [gcAt EXCEPT ![old] = ScheduleGc(isFetching(old)), ![k] = 0]
    /\ late' = FALSE
    /\ UNCHANGED <<backendUrl, mounted, pages, pageParams, dataUpdatedAt,
                   zombies, now>>

\* refetchOnWindowFocus and refetchOnReconnect keep their default (true): the
\* observed query is fetched when it is stale.
RefetchStale ==
    /\ mounted
    /\ isStale(queryKey(cur))
    /\ FetchIfStale(job, cur)
    /\ late' = FALSE
    /\ UNCHANGED <<backendUrl, cur, mounted, pages, pageParams, dataUpdatedAt,
                   gcAt, zombies, now>>

\* The window gets the focus.
Focus == RefetchStale

\* The network is back.
Online == RefetchStale

\* fetchNextPage() of the hook's result, with its default cancelRefetch: true.
\* A fetch in flight is joined when the query has no data yet and superseded
\* when it has; with no next page param the fetch resolves with the data as
\* it is, without calling fetchData.
FetchNextPage ==
    LET k == queryKey(cur) IN
    /\ mounted
    /\ IF isFetching(k) /\ NoData(k)
       THEN /\ job' = [job EXCEPT ![k].retryCancelled = FALSE]
            /\ UNCHANGED <<pages, pageParams, status, error, dataUpdatedAt,
                           gcAt, zombies>>
       ELSE /\ NetworkCallOut(k) => Len(zombies) < MaxZombies
            /\ zombies' = IF NetworkCallOut(k) THEN Append(zombies, Zombie(job[k]))
                          ELSE zombies
            /\ IF NoData(k)
               THEN /\ job' = [job EXCEPT ![k] = FetchAll(cur)]
                    /\ status' = [status EXCEPT ![k] = FetchStatus(k)]
                    /\ error' = [error EXCEPT ![k] = FetchError(k)]
                    /\ UNCHANGED <<pages, pageParams, dataUpdatedAt, gcAt>>
               ELSE IF getNextPageParam(Last(pages[k])) = Undefined
                    THEN Success(k, pages[k], pageParams[k])
                    ELSE /\ Len(pages[k]) < MaxPages
                         /\ job' = [job EXCEPT ![k] = FetchForward(cur)]
                         /\ status' = [status EXCEPT ![k] = FetchStatus(k)]
                         /\ error' = [error EXCEPT ![k] = FetchError(k)]
                         /\ UNCHANGED <<pages, pageParams, dataUpdatedAt, gcAt>>
    /\ late' = FALSE
    /\ UNCHANGED <<backendUrl, cur, mounted, now>>

\* The call of fetchData that the fetch of query k has out settles with
\* outcome o: fetchPage adds the page and the fetch goes on or succeeds; after
\* a rejection the fetch waits for its retry delay, or fails when no retry is
\* left or the retry was cancelled.
Settle(k, o) ==
    LET j == job[k]
        out == fetchData(o)
    IN
    /\ CallIsOut(k)
    /\ IF out.ok
       THEN LET page == [req |-> out.value.req, data |-> out.value.data,
                         fetchedAt |-> now]
                res == addTo(j.res, page)
                resParams == addTo(j.resParams, j.param)
                next == getNextPageParam(page)
            IN IF j.direction = "all" /\ Len(res) < j.remaining /\ next # Undefined
               THEN /\ job' = [job EXCEPT ![k] =
                                 [j EXCEPT !.param = next, !.res = res,
                                           !.resParams = resParams,
                                           !.callAt = now]]
                    /\ UNCHANGED <<pages, pageParams, status, error,
                                   dataUpdatedAt, gcAt, late>>
               ELSE /\ Success(k, res, resParams)
                    /\ late' = (k # queryKey(cur))
       ELSE /\ IF j.failureCount < retry /\ ~j.retryCancelled
               THEN /\ job' = [job EXCEPT ![k] =
                                 [j EXCEPT !.failureCount = @ + 1,
                                           !.waiting = TRUE,
                                           !.failure = out.error]]
                    /\ UNCHANGED <<pages, pageParams, status, error,
                                   dataUpdatedAt, gcAt>>
               ELSE Fail(k, out.error)
            /\ UNCHANGED late
    /\ UNCHANGED <<backendUrl, cur, mounted, zombies, now>>

\* The retry delay of the fetch of query k is over (the delays, 1 s to 4 s,
\* are shorter than a step of the clock): the fetch fails with the error of
\* its last call when its retry was cancelled meanwhile, otherwise fetchFn
\* runs again from its first page.
Retry(k) ==
    LET j == job[k] IN
    /\ isFetching(k)
    /\ j.waiting
    /\ IF j.retryCancelled
       THEN Fail(k, j.failure)
       ELSE /\ job' = [job EXCEPT ![k] =
                         [j EXCEPT !.waiting = FALSE, !.failure = NoError,
                                   !.param = j.first, !.res = j.base,
                                   !.resParams = j.baseParams,
                                   !.callAt = now]]
            /\ UNCHANGED <<pages, pageParams, status, error, dataUpdatedAt, gcAt>>
    /\ UNCHANGED <<backendUrl, cur, mounted, zombies, now, late>>

\* The network call of a superseded fetch settles: its fetchFn goes on to the
\* next page if it has pages left, and nothing of it reaches the query.
ZombieSettle(i, o) ==
    LET z == zombies[i]
        out == fetchData(o)
    IN
    /\ zombies' =
         IF /\ out.ok
            /\ z.left > 0
            /\ getNextPageParam(out.value) # Undefined
         THEN [zombies EXCEPT ![i] = [z EXCEPT !.param = getNextPageParam(out.value),
                                               !.left = @ - 1]]
         ELSE RemoveAt(zombies, i)
    /\ UNCHANGED <<backendUrl, cur, mounted, pages, pageParams, status, error,
                   dataUpdatedAt, gcAt, job, now, late>>

\* The gc timer of query k is due: gcTime after the query was left unobserved
\* and idle.
GcDue(k) ==
    /\ ~Observed(k)
    /\ ~isFetching(k)
    /\ gcAt[k] # 0
    /\ now >= gcAt[k] + gcTime

\* optionalRemove(): the query leaves the cache with its data; a later mount
\* finds a new query.
Gc(k) ==
    /\ GcDue(k)
    /\ pages' = [pages EXCEPT ![k] = <<>>]
    /\ pageParams' = [pageParams EXCEPT ![k] = <<>>]
    /\ status' = [status EXCEPT ![k] = "pending"]
    /\ error' = [error EXCEPT ![k] = NoError]
    /\ dataUpdatedAt' = [dataUpdatedAt EXCEPT ![k] = 0]
    /\ gcAt' = [gcAt EXCEPT ![k] = 0]
    /\ late' = FALSE
    /\ UNCHANGED <<backendUrl, cur, mounted, job, zombies, now>>

\* Time passes; a timer that is due fires first.
Tick ==
    /\ now < (MaxTicks + 1) * TickMs
    /\ \A k \in QueryKeys : ~GcDue(k)
    /\ now' = now + TickMs
    /\ UNCHANGED <<backendUrl, cur, mounted, pages, pageParams, status, error,
                   dataUpdatedAt, gcAt, job, zombies, late>>

\* The ways the call of fetchData of a request can settle: new URL(...)
\* throws when the backend URL is not set, so that fetchData rejects before
\* it calls Fetch; otherwise it settles as its call of Fetch does.
fetchDataOutcomes(base, params, pageParam, bodies) ==
    IF ValidUrl(base)
    THEN FetchOutcomes(fetchDataRequest(params, pageParam), bodies)
    ELSE { [ok |-> FALSE, error |-> "TypeError"] }

\* The outcomes of the call that a fetch has out.
JobOutcomes(k, bodies) ==
    fetchDataOutcomes(backendUrl, job[k].params, job[k].param, bodies)
ZombieOutcomes(i, bodies) ==
    fetchDataOutcomes(backendUrl, zombies[i].params, zombies[i].param, bodies)

\* Some fetch in flight settles, against a server answering with `bodies`.
Network(bodies) ==
    \E k \in QueryKeys :
        CallIsOut(k) /\ \E o \in JobOutcomes(k, bodies) : Settle(k, o)
ZombieNetwork(bodies) ==
    \E i \in 1..Len(zombies) : \E o \in ZombieOutcomes(i, bodies) : ZombieSettle(i, o)

\* The retry delay of some fetch is over.
RetryDelay == \E k \in QueryKeys : Retry(k)

\* The gc timer of some query fires.
GcTimer == \E k \in QueryKeys : Gc(k)

\* One set of params, over time, against a server with one more page or none.
Next ==
    \/ Unmount
    \/ Mount(P1)
    \/ Focus
    \/ Online
    \/ FetchNextPage
    \/ Network(PagedBodies)
    \/ RetryDelay
    \/ ZombieNetwork(PagedBodies)
    \/ GcTimer
    \/ Tick

Spec == Init /\ [][Next]_vars

\* One set of params, the hook staying mounted, against a server whose
\* cursors, categories and dates vary.
NextData ==
    \/ FetchNextPage
    \/ Network(DataBodies)
    \/ RetryDelay
    \/ ZombieNetwork(DataBodies)

SpecData == Init /\ [][NextData]_vars

\* The caller changes the params, unmounts and mounts the hook while fetches
\* are in flight.
NextParams ==
    \/ \E p \in IParams : Render(p)
    \/ Unmount
    \/ \E p \in IParams : Mount(p)
    \/ FetchNextPage
    \/ Network(PagedBodies)
    \/ RetryDelay
    \/ ZombieNetwork(PagedBodies)

SpecParams == Init /\ [][NextParams]_vars

\* The cursor a server reads from the query string of a request.
parseCursor(s) == CHOOSE n \in 0..(Len(Digits) - 1) : Digits[n + 1] = s

\* A server that splits the date range of a request into pages of one date
\* each, chained by next cursors: the page of cursor c holds the date
\* start_date + c, and the page of the last date has no next cursor.
SplitBody(req) ==
    LET c == parseCursor(req.cursor)
        d == req.start_date + c
    IN [room_categories |-> <<Category(d, d)>>,
        nextCursor |-> IF d < req.end_date THEN c + 1 ELSE Undefined]

\* That server always answers: the one way a call of Fetch settles.
SplitOutcomes(req) == { o \in FetchOutcomes(req, {SplitBody(req)}) : o.ok }

\* The ways a call of fetchData settles against that server.
fetchDataSplit(base, params, pageParam) ==
    IF ValidUrl(base)
    THEN SplitOutcomes(fetchDataRequest(params, pageParam))
    ELSE { [ok |-> FALSE, error |-> "TypeError"] }

NetworkSplit ==
    \E k \in QueryKeys :
        /\ CallIsOut(k)
        /\ \E o \in fetchDataSplit(backendUrl, job[k].params, job[k].param) :
             Settle(k, o)
ZombieNetworkSplit ==
    \E i \in 1..Len(zombies) :
        \E o \in fetchDataSplit(backendUrl, zombies[i].params, zombies[i].param) :
            ZombieSettle(i, o)

\* One set of params, over time, against the server that splits the range.
NextSplit ==
    \/ Focus
    \/ FetchNextPage
    \/ NetworkSplit
    \/ RetryDelay
    \/ ZombieNetworkSplit
    \/ Tick

SpecSplit == Init /\ [][NextSplit]_vars

\* ---------------------------------------------------------------- claims
\* The network calls that are out, of a query's fetch and of the superseded
\* fetches.
CallOut(k) ==
    IF isFetching(k)
    THEN <<job[k].params, job[k].param, job[k].failureCount, Len(job[k].res)>>
    ELSE <<>>
ForwardOut(k) == isFetching(k) /\ job[k].direction = "forward"

\* The cursors a run has requested so far.
RunCursors(k) ==
    IF ForwardOut(k) THEN Append(pageParams[k], job[k].param) ELSE pageParams[k]

NoRepeat(s) == \A i, n \in 1..Len(s) : i # n => s[i] # s[n]

\* C1: a further page is reported available exactly while the last received
\* page carries a next cursor, and no page is requested after a page without.
C1_NextPageReported ==
    \A k \in QueryKeys :
        /\ ~NoData(k) =>
             (hasNextPage(k) <=> Last(pages[k]).data.nextCursor # Undefined)
        /\ ForwardOut(k) => Last(pages[k]).data.nextCursor # Undefined

\* C2: a next cursor equal to a cursor already used in the run is never
\* accepted as the next page param: no run requests the same cursor twice.
C2_RepeatedCursorRejected == \A k \in QueryKeys : NoRepeat(RunCursors(k))

\* C3: every run ends.  Each request after the first must then carry a cursor
\* the run has not used (a server may repeat a cursor for ever once one
\* repeat is accepted), so a run ends within as many requests as there are
\* cursor values.
C3_RunTerminates ==
    \A k \in QueryKeys : Len(RunCursors(k)) <= Cardinality(Cursors)

\* C4: at most one network call is out for one (params, cursor).
C4_SingleFlight ==
    /\ \A k \in QueryKeys : \A i \in 1..Len(zombies) :
         CallIsOut(k) =>
            ~(zombies[i].params = job[k].params /\ zombies[i].param = job[k].param)
    /\ \A i, n \in 1..Len(zombies) :
         i # n => ~(zombies[i].params = zombies[n].params
                    /\ zombies[i].param = zombies[n].param)

\* The TTL of the cache: 120 seconds.
Ttl == 120 * 1000

NoNewCall ==
    /\ \A k \in QueryKeys : CallOut(k)' = CallOut(k)
    /\ zombies' = zombies

\* C5: mounting the hook again with the same params starts no network call
\* while every page held is younger than the TTL, and starts one once a page
\* held is older.
C5_PageTtl ==
    [][\A p \in IParams :
         LET k == queryKey(p) IN
         (Mount(p) /\ ~NoData(k)) =>
            /\ (\A i \in 1..Len(pages[k]) : now - pages[k][i].fetchedAt < Ttl)
                  => NoNewCall
            /\ ((\E i \in 1..Len(pages[k]) : now - pages[k][i].fetchedAt >= Ttl)
                  /\ ~isFetching(k)) => isFetching(k)']_vars

\* C6: the pages exposed to the caller were all requested with the params
\* the hook is mounted with.
C6_LastParamsWin ==
    \A i \in 1..Len(pages[queryKey(cur)]) :
        LET req == pages[queryKey(cur)][i].req IN
        /\ req.property_id = cur.property_id
        /\ req.start_date = cur.start_date
        /\ req.end_date = cur.end_date

\* A fetch for the params the hook had left succeeded after the pages of the
\* newer params were there.
C6_Witness ==
    /\ late
    /\ cur = P2
    /\ ~NoData(queryKey(P2))
    /\ ~NoData(queryKey(P1))

\* C7: the page at position i is the response to the i-th cursor of the
\* chain that starts at the initial cursor and follows nextCursor.
C7_FetchOrder ==
    \A k \in QueryKeys :
        /\ Len(pageParams[k]) = Len(pages[k])
        /\ \A i \in 1..Len(pages[k]) :
             /\ pages[k][i].req.cursor = toString(pageParams[k][i])
             /\ pageParams[k][i] =
                  IF i = 1 THEN initialPageParam
                  ELSE pages[k][i - 1].data.nextCursor

\* Two pages and more are held while a superseded network call is still out.
C7_Witness ==
    \E k \in QueryKeys : Len(pages[k]) >= 2 /\ zombies # <<>>

\* All category ids of the accumulated pages, in order.
RECURSIVE CategoryIds(_)
CategoryIds(ps) ==
    IF ps = <<>> THEN <<>>
    ELSE [i \in 1..Len(ps[1].data.room_categories) |->
            ps[1].data.room_categories[i].id] \o CategoryIds(Tail(ps))

\* C8: no two categories of the accumulated pages have the same id.
C8_NoDuplicateCategories ==
    \A k \in QueryKeys : NoRepeat(CategoryIds(pages[k]))

\* The data-model invariants of the i-th page of a page list.
ValidPage(ps, params, i) ==
    LET cats == ps[i].data.room_categories IN
    /\ NoRepeat([n \in 1..Len(cats) |-> cats[n].id])
    /\ \A n \in 1..Len(cats) :
         /\ ps[i].req.start_date <= cats[n].date
         /\ cats[n].date <= ps[i].req.end_date
    /\ \A n \in 1..i : ps[i].data.nextCursor # params[n]

\* C9: a page that violates the data-model invariants is never among the
\* accumulated pages.
C9_InvalidPageNotMerged ==
    \A k \in QueryKeys :
        \A i \in 1..Len(pages[k]) : ValidPage(pages[k], pageParams[k], i)

\* The kinds of error of the fetcher's contract, and the errors a call of
\* fetchData can reject with.
ErrorKinds == {"NetworkError", "DecodeError", "ValidationError"}
fetchDataErrors == FetchErrors \cup {"TypeError"}

\* C10: every call of fetchData that fails is reported to the caller: the
\* query is then in error with the error of that call, which is one of
\* NetworkError, DecodeError and ValidationError.
C10_ErrorsReported ==
    [][\A k \in QueryKeys : \A e \in fetchDataErrors :
         Settle(k, [ok |-> FALSE, error |-> e]) =>
            /\ e \in ErrorKinds
            /\ status'[k] = "error"
            /\ error'[k] = e]_vars

\* The timeout a caller asks for: two steps of the clock.
Timeout == 2 * TickMs

\* C11: a network call that has not settled within the timeout is no longer
\* in flight: its fetch has failed and left the query free for a new call.
C11_TimeoutHonoured ==
    \A k \in QueryKeys : NetworkCallOut(k) => now - job[k].callAt <= Timeout

\* C12: every date of every page that a successful fetch has returned lies
\* within [start_date, end_date] of the request the page answers.
C12_DatesInRange ==
    \A k \in QueryKeys : \A i \in 1..Len(pages[k]) :
        \A n \in 1..Len(pages[k][i].data.room_categories) :
            LET d == pages[k][i].data.room_categories[n].date IN
            /\ pages[k][i].req.start_date <= d
            /\ d <= pages[k][i].req.end_date

\* All dates of the accumulated pages, in order.
RECURSIVE DatesOf(_)
DatesOf(ps) ==
    IF ps = <<>> THEN <<>>
    ELSE [i \in 1..Len(ps[1].data.room_categories) |->
            ps[1].data.room_categories[i].date] \o DatesOf(Tail(ps))

\* The run of a query has received its last page.
RunComplete(k) == ~NoData(k) /\ Last(pages[k]).data.nextCursor = Undefined

\* The pages of a complete run hold every date of the range once, in order.
SplitCovered(k) ==
    RunComplete(k) =>
        DatesOf(pages[k]) =
            [i \in 1..(k[2].end_date - k[2].start_date + 1) |->
                k[2].start_date + i - 1]

\* A page of a run is requested once: no superseded network call is out for
\* a cursor whose page the run holds or is requesting with another call.
OneRequestPerPage(k) ==
    \A i \in 1..Len(zombies) :
        (zombies[i].params = k[2] /\ zombies[i].direction = "forward") =>
            /\ \A n \in 1..Len(pageParams[k]) : pageParams[k][n] # zombies[i].param
            /\ ForwardOut(k) => job[k].param # zombies[i].param

\* C13: against the server that splits the range into consecutive pages, a
\* run issues one request per page, and once it is complete its pages hold
\* every date of the range exactly once.
C13_SplitRun ==
    \A k \in QueryKeys : OneRequestPerPage(k) /\ SplitCovered(k)

\* C14: after a network call has failed in transport its fetch has ended,
\* and no call is made for it again unless the caller asks: no retry delay
\* ends in a new call.
C14_NoImplicitRetry ==
    [][\A k \in QueryKeys :
         /\ Settle(k, [ok |-> FALSE, error |-> "NetworkError"]) => ~isFetching(k)'
         /\ Retry(k) => ~CallIsOut(k)']_vars

\* The page was requested with the params p.
PageOf(page, p) ==
    /\ page.req.property_id = p.property_id
    /\ page.req.start_date = p.start_date
    /\ page.req.end_date = p.end_date

\* C15: when the params change, the page sequence exposed for the new params
\* is empty, and it never holds a page requested with other params.
C15_Discarded ==
    [][LET k == queryKey(cur') IN
       /\ cur' # cur => pages'[k] = <<>>
       /\ \A i \in 1..Len(pages'[k]) : PageOf(pages'[k][i], cur')]_vars

\* The response held at position i of a query is the response to the request
\* of the query's params and of the i-th cursor.
KeyedResponse(k, i) ==
    pages[k][i].req = fetchDataRequest(k[2], pageParams[k][i])

\* C16: each (params, cursor) has a cache entry of its own.  The
\* response held for a cursor answers the request of that cursor, and when
\* the hook is mounted again a page is fetched again exactly when its own
\* age has reached the TTL, whatever the age of the pages of other cursors.
C16_PerCursorEntry ==
    [][\A p \in IParams :
         LET k == queryKey(p) IN
         (Mount(p) /\ ~NoData(k) /\ ~isFetching(k)) =>
            \A i \in 1..Len(pages[k]) :
                /\ KeyedResponse(k, i)
                /\ now - pages[k][i].fetchedAt >= Ttl
                     <=> (isFetching(k)' /\ job'[k].remaining >= i)]_vars

\* The state of the page request of a query.
PageState(k) ==
    IF isFetching(k) THEN "Fetching"
    ELSE IF status[k] = "success" THEN "Succeeded"
    ELSE IF status[k] = "error" THEN "Failed"
    ELSE "Idle"

\* Fetching is entered from Idle or Succeeded only.
EntersFetching(k) ==
    (PageState(k)' = "Fetching" /\ PageState(k) # "Fetching") =>
        PageState(k) \in {"Idle", "Succeeded"}

\* Succeeded and Failed are entered from Fetching only.
EntersSettled(k) ==
    (PageState(k)' \in {"Succeeded", "Failed"} /\ PageState(k)' # PageState(k)) =>
        PageState(k) = "Fetching"

\* fetchNextPage starts no network call while a fetch is in flight.
NoFetchWhileFetching(k) ==
    (FetchNextPage /\ k = queryKey(cur) /\ isFetching(k)) => NoNewCall

\* C17: a page request moves from Idle to Fetching and from there to
\* Succeeded or Failed; Fetching is entered again from Succeeded only, and
\* no fetch of a next page is started from Failed or while one is in flight.
C17_PageRequestStates ==
    [][\A k \in QueryKeys :
         EntersFetching(k) /\ EntersSettled(k) /\ NoFetchWhileFetching(k)]_vars

\* s is a prefix of t.
IsPrefix(s, t) == Len(s) <= Len(t) /\ \A i \in 1..Len(s) : s[i] = t[i]

\* C18: while the fetch of a further page is in flight the accumulated pages
\* only grow at their end: when its network call settles with a response
\* they grow by exactly that one page, when it settles with a failure they
\* stay as they are, and no other step changes them.
C18_PagesFrame ==
    [][\A k \in QueryKeys :
         ForwardOut(k) =>
            /\ IsPrefix(pages[k], pages'[k])
            /\ \A o \in JobOutcomes(k, PagedBodies) :
                 Settle(k, o) =>
                    IF o.ok
                    THEN /\ Len(pages'[k]) = Len(pages[k]) + 1
                         /\ Last(pages'[k]).req = o.value.req
                         /\ Last(pages'[k]).data = o.value.data
                    ELSE pages'[k] = pages[k]
            /\ (\A o \in JobOutcomes(k, PagedBodies) : ~Settle(k, o)) =>
                 pages'[k] = pages[k]]_vars

\* Two pages were accumulated and the fetch of a third one has failed.
C18_Witness ==
    \E k \in QueryKeys :
        /\ Len(pages[k]) = 2
        /\ status[k] = "error"
        /\ ~isFetching(k)
        /\ hasNextPage(k)

\* The request of the network call that the fetch of a query has out.
RequestOut(k) == fetchDataRequest(job[k].params, job[k].param)

\* The cursor query parameter of the request that follows the pages ps: "0"
\* for the first request, then the next cursor of the last page.
CursorAfter(ps) ==
    IF ps = <<>> THEN "0" ELSE toString(Last(ps).data.nextCursor)

\* C19: every request carries a cursor: the first request of a run the
\* cursor 0, the request after n pages the nextCursor of the n-th page, all
\* of them with the property_id, start_date and end_date of the first one.
\* This holds of the request that is out and of the requests of the pages held.
C19_CursorChain ==
    \A k \in QueryKeys :
        /\ isFetching(k) =>
             /\ job[k].param # Undefined
             /\ RequestOut(k).cursor = CursorAfter(job[k].res)
             /\ PageOf([req |-> RequestOut(k)], k[2])
             /\ job[k].res # <<>> => PageOf(job[k].res[1], k[2])
        /\ \A i \in 1..Len(pages[k]) :
             /\ pages[k][i].req.cursor = CursorAfter(SubSeq(pages[k], 1, i - 1))
             /\ PageOf(pages[k][i], k[2])

\* The third request of a run is out, after two pages.
C19_Witness ==
    \E k \in QueryKeys : isFetching(k) /\ Len(job[k].res) = 2

\* C20: getNextPageParam returns a non-zero nextCursor as it is and nothing
\* for nextCursor 0, as for an absent one: after a page whose nextCursor is 0
\* or absent no further page is reported and none is requested, and after
\* any other page the request of the next page carries its nextCursor; no
\* request after the first one carries cursor 0.
C20_ZeroEndsRun ==
    /\ \A b \in DataBodies :
         getNextPageParam([data |-> b]) =
            IF b.nextCursor \in {0, Undefined} THEN Undefined ELSE b.nextCursor
    /\ \A k \in QueryKeys :
         /\ ~NoData(k) =>
              IF Last(pages[k]).data.nextCursor \in {0, Undefined}
              THEN ~hasNextPage(k) /\ ~ForwardOut(k)
              ELSE hasNextPage(k)
         /\ ForwardOut(k) =>
              /\ job[k].param = Last(pages[k]).data.nextCursor
              /\ job[k].param # 0
         /\ \A i \in 2..Len(pageParams[k]) : pageParams[k][i] # 0

\* A run has followed a non-zero cursor and ended at a page whose nextCursor
\* is 0.
C20_Witness ==
    \E k \in QueryKeys :
        /\ Len(pages[k]) >= 2
        /\ Last(pages[k]).data.nextCursor = 0
        /\ ~isFetching(k)

====
